---- MODULE Spec2Model ----
(***************************************************************************)
(* The download cache protocol of tensorflow_hub/resolver.py:              *)
(* atomic_download and _wait_for_lock_to_disappear, run by NTasks          *)
(* concurrent callers that share one filesystem and one module_dir.        *)
(* Every filesystem call of the code is one atomic step of the model; the  *)
(* local computation that follows a call is part of that step.             *)
(* The module also holds Resolver.get_module_path with PathResolver and    *)
(* UseFirstSupportingResolver (ResolverSpec),                              *)
(* tf_utils.garbage_collect_exports (GcSpec),                              *)
(* tf_utils.get_timestamped_export_dir (TimestampSpec) and                 *)
(* tfhub_cache_dir (CacheSpec), each applied once to inputs drawn from     *)
(* bounded sets, and tf_utils.atomic_write_string_to_file as the lock      *)
(* write of NTasks concurrent writers (WriteSpec).                         *)
(***************************************************************************)
EXTENDS Integers, Sequences, FiniteSets, TLC

\* ---------------------------------------------------------------- bounds
NTasks == 3                \* concurrent callers of atomic_download
DownloadSize == 1          \* chunks download_fn writes into its tmp_dir
LockFileTimeoutSec == 1    \* lock_file_timeout_sec, in clock ticks
NHandles == 2              \* handles a resolver is asked for
MaxResolvers == 2          \* children of a UseFirstSupportingResolver
MaxVersions == 3           \* versioned exports in an export directory
MaxSleep == 2              \* seconds that go by in one time.sleep(1)
NPaths == 2                \* directory names a cache setting may hold

Tasks == 1..NTasks

\* ------------------------------------------------------- values and paths
\* File and directory contents are sequences of integers: a directory is the
\* sequence of the chunks written into it, a text file the fields of its text.
Absent == <<-1>>           \* a path that does not exist
None == <<-2>>             \* Python's None
EmptyString == <<>>        \* ""
module_dir == "module_dir" \* the module_dir argument, the same for all callers
NoPath == "None"           \* no value returned (yet)

\* What download_fn of task t leaves in its directory when it returns:
\* DownloadSize chunks, each tagged with the task that wrote it.
\* Task 0 is an earlier caller, whose output a module_dir that exists before
\* any call holds.
DownloadOutput(t) == [i \in 1..DownloadSize |-> t]

\* socket.gethostname() and os.getpid(): the callers are threads of one
\* process, so that only task_uid tells their lock contents apart.
Hostname(t) == 1
Pid(t) == 1

\* "%s.%d.%s" % (hostname, pid, task_uid), kept as its three fields
_lock_file_contents(task_uid) == <<Hostname(task_uid), Pid(task_uid), task_uid>>

\* lock.split(".")[-1]
_task_uid_from_lock_file(lock) == lock[Len(lock)]

\* total size of a directory: every chunk has length 1
_dir_size(directory) == Len(directory)

VARIABLES
  pc,                      \* position of every task in atomic_download
  moduleDir,               \* content of module_dir, or Absent
  lockFile,                \* content of module_dir.lock, or Absent
  tmpDir,                  \* tmpDir[u]: content of module_dir.<u>.tmp, or Absent
  descriptor,              \* writer of module_dir.descriptor.txt, or Absent
  locked_tmp_dir_size,     \* waiter's local: size at its last sample
  lock_file_content,       \* waiter's local: lock content at its last sample
  since_check_time,        \* time.time() - locked_tmp_dir_size_check_time
  waited,                  \* history, kept in WaitSpec: the time a waiter's
                           \* clock counted since its wait began (line 224)
  task_uid,                \* local of _locked_tmp_dir_size (0: not set)
  cur_locked_tmp_dir_size, \* waiter's local: size just measured
  contents,                \* local of the finally clause
  outcome,                 \* how each call ends: "none" (undecided), "returned",
                           \* "raised" (download_fn's error), "interrupted",
                           \* "cleanup_interrupted", "cleanup_error",
                           \* "descriptor_error"
  retval,                  \* the value a call returned
  downloadCalls,           \* history: number of download_fn invocations
  reclaimedFrom,           \* history: uids whose lock a waiter deleted (line 245)
  raisedHolding,           \* history: tasks whose download_fn raised under their lock
  existedAtCall,           \* history: module_dir existed when the call began
  existedAtStart,          \* history: module_dir existed before any call
  lostRace,                \* history: tasks whose Rename found module_dir there
  created,                 \* history: running calls whose lock write (292) succeeded
  sawAbsent,               \* history: running calls that found no module_dir at 296
  fetched,                 \* history: running calls whose download_fn returned
  resolver,                \* the Resolver whose get_module_path is called
  handle,                  \* its argument
  gfile,                   \* what tf.gfile.Exists(handle) does
  result,                  \* how get_module_path ended and what it returned
  calls,                   \* the methods it called, in order
  export_dir_base,         \* names of the entries of the export directory
  exports_to_keep,         \* argument of garbage_collect_exports
  listed,                  \* history: the entries when the call began
  collected,               \* garbage_collect_exports has returned
  time,                    \* int(time.time()) of get_timestamped_export_dir
  attempts,                \* its local
  export_dir,              \* its local: the path of the last attempt
  exists_checks,           \* history: <<path, answer>> of each tf.gfile.Exists
  export_result,           \* how the call ended and what it returned
  environ,                 \* os.getenv("TFHUB_CACHE_DIR", "")
  flag,                    \* FLAGS["tfhub_cache_dir"].value
  default_cache_dir,       \* argument of tfhub_cache_dir
  use_temp,                \* argument of tfhub_cache_dir
  cache_dir,               \* what tfhub_cache_dir returned
  target,                  \* atomic_write_string_to_file: content of the file
                           \* named filename (the lock file), or Absent
  temp_pathname,           \* content of each writer's temp file, or Absent
  writing,                 \* position of each writer in the function
  write_result             \* how each writer's call ended

fs == <<moduleDir, lockFile, tmpDir, descriptor>>
waitLocals == <<locked_tmp_dir_size, lock_file_content, since_check_time, waited,
                task_uid, cur_locked_tmp_dir_size>>
results == <<outcome, retval>>
callHistory == <<downloadCalls, reclaimedFrom, raisedHolding, existedAtCall,
                 existedAtStart, lostRace>>
stepHistory == <<created, sawAbsent, fetched>>
history == <<callHistory, stepHistory>>
resolverVars == <<resolver, handle, gfile, result, calls>>
exportVars == <<export_dir_base, exports_to_keep, listed, collected>>
timestampVars == <<time, attempts, export_dir, exists_checks, export_result>>
cacheVars == <<environ, flag, default_cache_dir, use_temp, cache_dir>>
writeVars == <<target, temp_pathname, writing, write_result>>
pure == <<resolverVars, exportVars, timestampVars, cacheVars, writeVars>>
vars == <<pc, fs, waitLocals, contents, results, history, pure>>

WaitPcs == {"w_exists", "w_log", "w_uid", "w_size", "w_content", "w_remove",
            "w_sleep", "w_sleep_brk"}
BodyPcs == {"try_lock", "recheck", "mkdirs", "call_download", "downloading",
            "descriptor", "rename"}
FinallyPcs == {"fin_rmtree", "fin_read", "fin_remove"}
InCall == BodyPcs \cup WaitPcs \cup FinallyPcs

\* ---------------------------------------------------------------- resolvers
\* Handles are numbered; 0 stands for no handle and no path.
Handles == 1..NHandles
NoHandle == 0

\* A Resolver subclass other than the two of this module: it supports the
\* handles of `supported` and resolves a handle to a path of its own.
StubResolvers ==
  {[kind |-> "Stub", id |-> i, supported |-> S] :
     i \in 1..MaxResolvers, S \in SUBSET Handles}

\* PathResolver(), line 404.
PathResolver == [kind |-> "PathResolver", id |-> 0, supported |-> {}]

\* UseFirstSupportingResolver(resolvers), line 420-428.
UseFirstSupportingResolver(resolvers) ==
  [kind |-> "UseFirstSupportingResolver", resolvers |-> resolvers]

ChildResolvers == {PathResolver} \cup StubResolvers
ChildLists == UNION {[1..n -> ChildResolvers] : n \in 0..MaxResolvers}
Resolvers ==
  ChildResolvers \cup {UseFirstSupportingResolver(rs) : rs \in ChildLists}

NoResolver == [kind |-> "None"]
NoResult == [status |-> "none", path |-> NoHandle]

\* No get_module_path call is modelled.
ResolverIdle ==
  /\ resolver = NoResolver
  /\ handle = NoHandle
  /\ gfile = "missing"
  /\ result = NoResult
  /\ calls = <<>>

\* No garbage_collect_exports call is modelled.
ExportsIdle ==
  /\ export_dir_base = {}
  /\ exports_to_keep = None
  /\ listed = {}
  /\ collected = FALSE

\* The call has not ended.
Running == [status |-> "running", path |-> <<>>]

\* No get_timestamped_export_dir call is modelled.
TimestampIdle ==
  /\ time = 0
  /\ attempts = 0
  /\ export_dir = <<>>
  /\ exists_checks = <<>>
  /\ export_result = Running

\* tfhub_cache_dir has not returned.
NotReturned == [returned |-> FALSE, value |-> None]

\* No tfhub_cache_dir call is modelled.
CacheDirIdle ==
  /\ environ = EmptyString
  /\ flag = None
  /\ default_cache_dir = None
  /\ use_temp = FALSE
  /\ cache_dir = NotReturned

\* ----------------------------------------------------------- atomic_download
\* No atomic_download call has begun.
DownloadInit ==
  /\ pc = [t \in Tasks |-> "idle"]
  /\ moduleDir \in {Absent, DownloadOutput(0)}
  /\ lockFile = Absent
  /\ tmpDir = [t \in Tasks |-> Absent]
  /\ descriptor = Absent
  /\ locked_tmp_dir_size = [t \in Tasks |-> 0]
  /\ lock_file_content = [t \in Tasks |-> None]
  /\ since_check_time = [t \in Tasks |-> 0]
  /\ waited = [t \in Tasks |-> 0]
  /\ task_uid = [t \in Tasks |-> 0]
  /\ cur_locked_tmp_dir_size = [t \in Tasks |-> 0]
  /\ contents = [t \in Tasks |-> None]
  /\ outcome = [t \in Tasks |-> "none"]
  /\ retval = [t \in Tasks |-> NoPath]
  /\ downloadCalls = 0
  /\ reclaimedFrom = {}
  /\ raisedHolding = {}
  /\ existedAtCall = [t \in Tasks |-> FALSE]
  /\ existedAtStart = (moduleDir # Absent)
  /\ lostRace = {}
  /\ created = {}
  /\ sawAbsent = {}
  /\ fetched = {}

\* No call of atomic_write_string_to_file is followed step by step.
WriteIdle ==
  /\ target = Absent
  /\ temp_pathname = [w \in Tasks |-> Absent]
  /\ writing = [w \in Tasks |-> "idle"]
  /\ write_result = [w \in Tasks |-> "none"]

Init ==
  /\ DownloadInit
  /\ ResolverIdle /\ ExportsIdle /\ TimestampIdle /\ CacheDirIdle /\ WriteIdle

\* tf.gfile.Exists
Exists(path) == path # Absent

\* The locals of _wait_for_lock_to_disappear as they are when it is entered
\* (lines 223-225) and, in the model, whenever the function is not running.
ResetWait(t) ==
  /\ locked_tmp_dir_size' = [locked_tmp_dir_size EXCEPT ![t] = 0]
  /\ lock_file_content' = [lock_file_content EXCEPT ![t] = None]
  /\ since_check_time' = [since_check_time EXCEPT ![t] = 0]
  /\ waited' = [waited EXCEPT ![t] = 0]
  /\ task_uid' = [task_uid EXCEPT ![t] = 0]
  /\ cur_locked_tmp_dir_size' = [cur_locked_tmp_dir_size EXCEPT ![t] = 0]

\* The step history is that of the calls that are running. created lasts as
\* long as the call; sawAbsent and fetched last as long as the task is in the
\* body of the try statement (lines 290-328), before the finally clause.
ForgetWhenEnded(t) ==
  LET ended == IF pc'[t] \in {"done", "crashed"} THEN {t} ELSE {}
      left == IF pc'[t] \in FinallyPcs THEN {t} ELSE ended
  IN /\ created' = created \ ended
     /\ sawAbsent' = sawAbsent \ left
     /\ fetched' = fetched \ left

\* atomic_download is called: lines 281-284 compute the names, no I/O.
Call(t) ==
  /\ pc[t] = "idle"
  /\ pc' = [pc EXCEPT ![t] = "try_lock"]
  /\ existedAtCall' = [existedAtCall EXCEPT ![t] = Exists(moduleDir)]
  /\ UNCHANGED <<pure, fs, waitLocals, contents, results, downloadCalls,
                 reclaimedFrom, raisedHolding, existedAtStart, lostRace, stepHistory>>

\* TryLock as it would be without the except clause of line 300: the error
\* of a write that finds the lock file in place reaches the caller.
TryLockRaises(t) ==
  /\ pc[t] = "try_lock"
  /\ IF Exists(lockFile)
       THEN /\ pc' = [pc EXCEPT ![t] = "fin_rmtree"]
            /\ outcome' = [outcome EXCEPT ![t] = "raised"]
            /\ UNCHANGED <<lockFile, created>>
       ELSE /\ pc' = [pc EXCEPT ![t] = "recheck"]
            /\ lockFile' = _lock_file_contents(t)
            /\ created' = created \cup {t}
            /\ UNCHANGED outcome
  /\ ResetWait(t)
  /\ UNCHANGED <<pure, moduleDir, tmpDir, descriptor, contents, retval,
                 callHistory, sawAbsent, fetched>>

\* TryLock as it would be with overwrite=True: the write replaces the lock
\* of another task.
TryLockOverwrite(t) ==
  /\ pc[t] = "try_lock"
  /\ pc' = [pc EXCEPT ![t] = "recheck"]
  /\ lockFile' = _lock_file_contents(t)
  /\ created' = created \cup {t}
  /\ ResetWait(t)
  /\ UNCHANGED <<pure, moduleDir, tmpDir, descriptor, contents, results,
                 callHistory, sawAbsent, fetched>>

\* Line 292-301: tf_utils.atomic_write_string_to_file(lock_file, lock_contents,
\* overwrite=False). Its Rename without overwrite either puts the complete
\* content in place or raises an OpError, which line 300 swallows; the caller
\* then enters _wait_for_lock_to_disappear (lines 223-225 set its locals).
\* TryLock as it would be if a failed lock write were taken for a success:
\* the task goes on to line 296 without a lock of its own.
TryLockFailureIgnored(t) ==
  /\ pc[t] = "try_lock"
  /\ pc' = [pc EXCEPT ![t] = "recheck"]
  /\ IF Exists(lockFile)
       THEN UNCHANGED <<lockFile, created>>
       ELSE /\ lockFile' = _lock_file_contents(t)
            /\ created' = created \cup {t}
  /\ ResetWait(t)
  /\ UNCHANGED <<pure, moduleDir, tmpDir, descriptor, contents, results,
                 callHistory, sawAbsent, fetched>>

TryLock(t) ==
  /\ pc[t] = "try_lock"
  /\ IF Exists(lockFile)
       THEN /\ pc' = [pc EXCEPT ![t] = "w_exists"]
            /\ UNCHANGED <<lockFile, created>>
       ELSE /\ pc' = [pc EXCEPT ![t] = "recheck"]
            /\ lockFile' = _lock_file_contents(t)
            /\ created' = created \cup {t}
  /\ ResetWait(t)
  /\ UNCHANGED <<pure, moduleDir, tmpDir, descriptor, contents, results,
                 callHistory, sawAbsent, fetched>>

\* Recheck with the test of line 296 inverted.
RecheckInverted(t) ==
  /\ pc[t] = "recheck"
  /\ IF ~Exists(moduleDir)
       THEN /\ pc' = [pc EXCEPT ![t] = "fin_rmtree"]
            /\ outcome' = [outcome EXCEPT ![t] = "returned"]
            /\ retval' = [retval EXCEPT ![t] = module_dir]
            /\ UNCHANGED sawAbsent
       ELSE /\ pc' = [pc EXCEPT ![t] = "mkdirs"]
            /\ sawAbsent' = sawAbsent \cup {t}
            /\ UNCHANGED results
  /\ UNCHANGED <<pure, fs, waitLocals, contents, callHistory, created, fetched>>

\* Recheck without the test of line 296: the download always goes ahead.
RecheckSkipped(t) ==
  /\ pc[t] = "recheck"
  /\ pc' = [pc EXCEPT ![t] = "mkdirs"]
  /\ sawAbsent' = sawAbsent \cup {t}
  /\ UNCHANGED <<pure, fs, waitLocals, contents, results, callHistory, created,
                 fetched>>

\* Line 296-299: the test of module_dir made with the lock held. A return
\* inside the try runs the finally clause before the call ends.
Recheck(t) ==
  /\ pc[t] = "recheck"
  /\ IF Exists(moduleDir)
       THEN /\ pc' = [pc EXCEPT ![t] = "fin_rmtree"]
            /\ outcome' = [outcome EXCEPT ![t] = "returned"]
            /\ retval' = [retval EXCEPT ![t] = module_dir]
            /\ UNCHANGED sawAbsent
       ELSE /\ pc' = [pc EXCEPT ![t] = "mkdirs"]
            /\ sawAbsent' = sawAbsent \cup {t}
            /\ UNCHANGED results
  /\ UNCHANGED <<pure, fs, waitLocals, contents, callHistory, created, fetched>>

\* Line 312: tf.gfile.MakeDirs(tmp_dir)
\* MakeDirs as it would be if the descriptor were written at line 312,
\* before download_fn is called.
MakeDirsWritesDescriptor(t) ==
  /\ pc[t] = "mkdirs"
  /\ tmpDir' = [tmpDir EXCEPT ![t] = IF tmpDir[t] = Absent THEN <<>> ELSE @]
  /\ descriptor' = <<t>>
  /\ pc' = [pc EXCEPT ![t] = "call_download"]
  /\ UNCHANGED <<pure, moduleDir, lockFile, waitLocals, contents, results, history>>

MakeDirs(t) ==
  /\ pc[t] = "mkdirs"
  /\ tmpDir' = [tmpDir EXCEPT ![t] = IF tmpDir[t] = Absent THEN <<>> ELSE @]
  /\ pc' = [pc EXCEPT ![t] = "call_download"]
  /\ UNCHANGED <<pure, moduleDir, lockFile, descriptor, waitLocals, contents,
                 results, history>>

\* Line 313: download_fn(handle, tmp_dir) is invoked.
DownloadCall(t) ==
  /\ pc[t] = "call_download"
  /\ downloadCalls' = downloadCalls + 1
  /\ pc' = [pc EXCEPT ![t] = "downloading"]
  /\ UNCHANGED <<pure, fs, waitLocals, contents, results, reclaimedFrom,
                 raisedHolding, existedAtCall, existedAtStart, lostRace, stepHistory>>

\* download_fn writes the next chunk into tmp_dir.
DownloadWrite(t) ==
  /\ pc[t] = "downloading"
  /\ tmpDir[t] # Absent
  /\ _dir_size(tmpDir[t]) < DownloadSize
  /\ tmpDir' = [tmpDir EXCEPT ![t] = Append(@, t)]
  /\ UNCHANGED <<pure, pc, moduleDir, lockFile, descriptor, waitLocals, contents,
                 results, history>>

\* download_fn returns once it has written everything.
DownloadReturn(t) ==
  /\ pc[t] = "downloading"
  /\ tmpDir[t] = DownloadOutput(t)
  /\ pc' = [pc EXCEPT ![t] = "descriptor"]
  /\ fetched' = fetched \cup {t}
  /\ UNCHANGED <<pure, fs, waitLocals, contents, results, callHistory, created,
                 sawAbsent>>

\* DownloadRaise as it would be if the error were swallowed around line 313:
\* the call goes on to publish what was downloaded so far.
DownloadRaiseSwallowed(t) ==
  /\ pc[t] = "downloading"
  /\ pc' = [pc EXCEPT ![t] = "descriptor"]
  /\ UNCHANGED <<pure, fs, waitLocals, contents, results, history>>

\* download_fn raises: the error leaves the try block, the finally clause
\* runs and the error then reaches the caller of atomic_download.
DownloadRaise(t) ==
  /\ pc[t] = "downloading"
  /\ pc' = [pc EXCEPT ![t] = "fin_rmtree"]
  /\ outcome' = [outcome EXCEPT ![t] = "raised"]
  /\ raisedHolding' = IF lockFile = _lock_file_contents(t)
                        THEN raisedHolding \cup {t} ELSE raisedHolding
  /\ ForgetWhenEnded(t)
  /\ UNCHANGED <<pure, fs, waitLocals, contents, retval, downloadCalls,
                 reclaimedFrom, existedAtCall, existedAtStart, lostRace>>

\* Line 323: _write_module_descriptor_file, an atomic write with overwrite.
WriteDescriptor(t) ==
  /\ pc[t] = "descriptor"
  /\ descriptor' = <<t>>
  /\ pc' = [pc EXCEPT ![t] = "rename"]
  /\ UNCHANGED <<pure, moduleDir, lockFile, tmpDir, waitLocals, contents,
                 results, history>>

\* Rename with overwrite: src replaces an existing dst.
RenameOverwrites(src, dst) == src

\* tf.gfile.Rename(src, dst) without overwrite, as the content dst has after
\* the call: an existing dst is left alone (AlreadyExistsError).
RenameResult(src, dst) == IF Exists(dst) THEN dst ELSE src

\* Rename as it would be without the except clause of line 326: the
\* AlreadyExistsError of a lost race reaches the caller.
RenameRaises(t) ==
  /\ pc[t] = "rename"
  /\ moduleDir' = RenameResult(tmpDir[t], moduleDir)
  /\ tmpDir' = [tmpDir EXCEPT ![t] = IF Exists(moduleDir) THEN @ ELSE Absent]
  /\ pc' = [pc EXCEPT ![t] = "fin_rmtree"]
  /\ outcome' = [outcome EXCEPT ![t] = IF Exists(moduleDir)
                                         THEN "raised" ELSE "returned"]
  /\ retval' = [retval EXCEPT ![t] = IF Exists(moduleDir)
                                       THEN NoPath ELSE module_dir]
  /\ lostRace' = IF Exists(moduleDir) THEN lostRace \cup {t} ELSE lostRace
  /\ ForgetWhenEnded(t)
  /\ UNCHANGED <<pure, lockFile, descriptor, waitLocals, contents, downloadCalls,
                 reclaimedFrom, raisedHolding, existedAtCall, existedAtStart>>

\* Line 324-328 and 347: publish tmp_dir as module_dir; AlreadyExistsError is
\* logged and ignored. Either way the call is about to return module_dir.
Rename(t) ==
  /\ pc[t] = "rename"
  /\ moduleDir' = RenameResult(tmpDir[t], moduleDir)
  /\ tmpDir' = [tmpDir EXCEPT ![t] = IF Exists(moduleDir) THEN @ ELSE Absent]
  /\ pc' = [pc EXCEPT ![t] = "fin_rmtree"]
  /\ outcome' = [outcome EXCEPT ![t] = "returned"]
  /\ retval' = [retval EXCEPT ![t] = module_dir]
  /\ lostRace' = IF Exists(moduleDir) THEN lostRace \cup {t} ELSE lostRace
  /\ ForgetWhenEnded(t)
  /\ UNCHANGED <<pure, lockFile, descriptor, waitLocals, contents, downloadCalls,
                 reclaimedFrom, raisedHolding, existedAtCall, existedAtStart>>

\* Line 331-335: tf.gfile.DeleteRecursively(tmp_dir), NotFoundError ignored.
\* The finally clause as it would be without lines 333-334: the temp
\* directory is left behind.
FinallyDeleteTmpSkipped(t) ==
  /\ pc[t] = "fin_rmtree"
  /\ pc' = [pc EXCEPT ![t] = "fin_read"]
  /\ UNCHANGED <<pure, fs, waitLocals, contents, results, history>>

FinallyDeleteTmp(t) ==
  /\ pc[t] = "fin_rmtree"
  /\ tmpDir' = [tmpDir EXCEPT ![t] = Absent]
  /\ pc' = [pc EXCEPT ![t] = "fin_read"]
  /\ UNCHANGED <<pure, moduleDir, lockFile, descriptor, waitLocals, contents,
                 results, history>>

\* Line 340: the ownership test on what line 337 read.
\* The test of line 340 as it would be if it compared with the empty string
\* that stands for a missing lock file (line 339).
OwnsLockWhenMissing(t, read) == read = EmptyString

OwnsLock(t, read) == read = _lock_file_contents(t)

\* Line 336-340: contents = read_file_to_string(lock_file), "" when the file
\* is not found; the call ends here when the content is not this task's.
FinallyReadLock(t) ==
  /\ pc[t] = "fin_read"
  /\ LET read == IF Exists(lockFile) THEN lockFile ELSE EmptyString IN
       IF OwnsLock(t, read)
         THEN /\ contents' = [contents EXCEPT ![t] = read]
              /\ pc' = [pc EXCEPT ![t] = "fin_remove"]
         ELSE /\ contents' = [contents EXCEPT ![t] = None]
              /\ pc' = [pc EXCEPT ![t] = "done"]
  /\ ForgetWhenEnded(t)
  /\ UNCHANGED <<pure, fs, waitLocals, results, callHistory>>

\* FinallyRemoveLock as it would be without the Remove of line 343: the
\* call ends and the task's lock file stays.
FinallyRemoveLockSkipped(t) ==
  /\ pc[t] = "fin_remove"
  /\ contents' = [contents EXCEPT ![t] = None]
  /\ pc' = [pc EXCEPT ![t] = "done"]
  /\ ForgetWhenEnded(t)
  /\ UNCHANGED <<pure, fs, waitLocals, results, callHistory>>

\* Line 342-345: tf.gfile.Remove(lock_file), NotFoundError ignored. Remove
\* deletes whatever file has that name at this moment.
FinallyRemoveLock(t) ==
  /\ pc[t] = "fin_remove"
  /\ lockFile' = Absent
  /\ contents' = [contents EXCEPT ![t] = None]
  /\ pc' = [pc EXCEPT ![t] = "done"]
  /\ ForgetWhenEnded(t)
  /\ UNCHANGED <<pure, moduleDir, tmpDir, descriptor, waitLocals, results, callHistory>>

\* --------------------------------------------- _wait_for_lock_to_disappear
\* Line 226: while tf.gfile.Exists(lock_file). When the lock is gone the
\* function returns and line 290 starts the next iteration.
WaitExists(t) ==
  /\ pc[t] = "w_exists"
  /\ IF Exists(lockFile)
       THEN /\ pc' = [pc EXCEPT ![t] = "w_log"]
            /\ UNCHANGED waitLocals
       ELSE /\ pc' = [pc EXCEPT ![t] = "try_lock"]
            /\ ResetWait(t)
  /\ UNCHANGED <<pure, fs, contents, results, history>>

\* Line 232-233: time.time() - locked_tmp_dir_size_check_time > timeout
TimedOut(elapsed) == elapsed > LockFileTimeoutSec

\* Line 228-233: the log call reads the lock file (NotFoundError when it is
\* gone: line 250, then the sleep of line 256), then the elapsed time is tested.
WaitLog(t) ==
  /\ pc[t] = "w_log"
  /\ pc' = [pc EXCEPT ![t] =
              IF Exists(lockFile) /\ TimedOut(since_check_time[t])
                THEN "w_uid" ELSE "w_sleep"]
  /\ UNCHANGED <<pure, fs, waitLocals, contents, results, history>>

\* WaitReadUid as it would be without the except clause of line 250: the
\* NotFoundError of a vanished lock file leaves the wait loop and the try block.
WaitReadUidRaises(t) ==
  /\ pc[t] = "w_uid"
  /\ IF Exists(lockFile)
       THEN /\ task_uid' = [task_uid EXCEPT ![t] = _task_uid_from_lock_file(lockFile)]
            /\ pc' = [pc EXCEPT ![t] = "w_size"]
            /\ UNCHANGED outcome
       ELSE /\ pc' = [pc EXCEPT ![t] = "fin_rmtree"]
            /\ outcome' = [outcome EXCEPT ![t] = "raised"]
            /\ UNCHANGED task_uid
  /\ UNCHANGED <<pure, fs, locked_tmp_dir_size, lock_file_content, since_check_time, waited,
                 cur_locked_tmp_dir_size, contents, retval, history>>

\* Line 199 (called from 236): _task_uid_from_lock_file reads the lock file;
\* its NotFoundError is not caught in _locked_tmp_dir_size and reaches line 250.
WaitReadUid(t) ==
  /\ pc[t] = "w_uid"
  /\ IF Exists(lockFile)
       THEN /\ task_uid' = [task_uid EXCEPT ![t] = _task_uid_from_lock_file(lockFile)]
            /\ pc' = [pc EXCEPT ![t] = "w_size"]
       ELSE /\ pc' = [pc EXCEPT ![t] = "w_sleep"]
            /\ UNCHANGED task_uid
  /\ UNCHANGED <<pure, fs, locked_tmp_dir_size, lock_file_content, since_check_time, waited,
                 cur_locked_tmp_dir_size, contents, results, history>>

\* Line 200-204: the size of the temp dir the lock points to, 0 when not found
_locked_tmp_dir_size(uid) ==
  IF Exists(tmpDir[uid]) THEN _dir_size(tmpDir[uid]) ELSE 0

WaitDirSize(t) ==
  /\ pc[t] = "w_size"
  /\ cur_locked_tmp_dir_size' =
       [cur_locked_tmp_dir_size EXCEPT ![t] = _locked_tmp_dir_size(task_uid[t])]
  /\ task_uid' = [task_uid EXCEPT ![t] = 0]
  /\ pc' = [pc EXCEPT ![t] = "w_content"]
  /\ UNCHANGED <<pure, fs, locked_tmp_dir_size, lock_file_content, since_check_time, waited,
                 contents, results, history>>

\* Inactive without the content test of line 239.
InactiveSizeOnly(t, cur_size, cur_content) ==
  cur_size = locked_tmp_dir_size[t]

\* Inactive as it would be if line 249 never recorded the content read.
InactiveContentNotKept(t, cur_size, cur_content) ==
  /\ cur_size = locked_tmp_dir_size[t]
  /\ cur_content = None

\* Line 238-239: nothing changed since the previous sample
Inactive(t, cur_size, cur_content) ==
  /\ cur_size = locked_tmp_dir_size[t]
  /\ cur_content = lock_file_content[t]

\* Line 237-249: read the lock content (NotFoundError: line 250), compare the
\* sample with the previous one, and either go on to delete the lock or keep
\* the sample and restart the window.
WaitCompare(t) ==
  /\ pc[t] = "w_content"
  /\ IF ~Exists(lockFile)
       THEN /\ pc' = [pc EXCEPT ![t] = "w_sleep"]
            /\ UNCHANGED <<locked_tmp_dir_size, lock_file_content, since_check_time>>
       ELSE IF Inactive(t, cur_locked_tmp_dir_size[t], lockFile)
         THEN /\ pc' = [pc EXCEPT ![t] = "w_remove"]
              /\ UNCHANGED <<locked_tmp_dir_size, lock_file_content, since_check_time>>
         ELSE /\ pc' = [pc EXCEPT ![t] = "w_sleep"]
              /\ locked_tmp_dir_size' =
                   [locked_tmp_dir_size EXCEPT ![t] = cur_locked_tmp_dir_size[t]]
              /\ since_check_time' = [since_check_time EXCEPT ![t] = 0]
              /\ lock_file_content' = [lock_file_content EXCEPT ![t] = lockFile]
  /\ cur_locked_tmp_dir_size' = [cur_locked_tmp_dir_size EXCEPT ![t] = 0]
  /\ UNCHANGED <<pure, fs, task_uid, waited, contents, results, history>>

\* WaitRemoveLock as it would be if the waiter also deleted the temporary
\* directory of the task whose lock it reclaims.
WaitRemoveLockAndTmpDir(t) ==
  /\ pc[t] = "w_remove"
  /\ IF Exists(lockFile)
       THEN /\ lockFile' = Absent
            /\ tmpDir' = [tmpDir EXCEPT ![_task_uid_from_lock_file(lockFile)] = Absent]
            /\ reclaimedFrom' = reclaimedFrom \cup {_task_uid_from_lock_file(lockFile)}
            /\ pc' = [pc EXCEPT ![t] = "w_sleep_brk"]
       ELSE /\ pc' = [pc EXCEPT ![t] = "w_sleep"]
            /\ UNCHANGED <<lockFile, tmpDir, reclaimedFrom>>
  /\ UNCHANGED <<pure, moduleDir, descriptor, waitLocals, contents, results,
                 downloadCalls, raisedHolding, existedAtCall, existedAtStart,
                 lostRace, stepHistory>>

\* Line 245-246: tf.gfile.Remove(lock_file) deletes whatever file has that
\* name now, then break; NotFoundError (line 250) keeps the loop running.
WaitRemoveLock(t) ==
  /\ pc[t] = "w_remove"
  /\ IF Exists(lockFile)
       THEN /\ lockFile' = Absent
            /\ reclaimedFrom' = reclaimedFrom \cup {_task_uid_from_lock_file(lockFile)}
            /\ pc' = [pc EXCEPT ![t] = "w_sleep_brk"]
       ELSE /\ pc' = [pc EXCEPT ![t] = "w_sleep"]
            /\ UNCHANGED <<lockFile, reclaimedFrom>>
  /\ UNCHANGED <<pure, moduleDir, tmpDir, descriptor, waitLocals, contents, results,
                 downloadCalls, raisedHolding, existedAtCall, existedAtStart,
                 lostRace, stepHistory>>

\* The sleep of line 256 as it would be if it never returned.
WaitSleepForever(t) ==
  /\ pc[t] = "w_sleep"
  /\ UNCHANGED vars

\* Line 256: time.sleep(5) in the finally clause of an iteration that goes
\* back to line 226. The sleep only lets time pass (Tick).
WaitSleep(t) ==
  /\ pc[t] = "w_sleep"
  /\ pc' = [pc EXCEPT ![t] = "w_exists"]
  /\ UNCHANGED <<pure, fs, waitLocals, contents, results, history>>

\* Line 256 after the break of line 246: the function returns and line 290
\* starts the next iteration.
WaitSleepBreak(t) ==
  /\ pc[t] = "w_sleep_brk"
  /\ pc' = [pc EXCEPT ![t] = "try_lock"]
  /\ ResetWait(t)
  /\ UNCHANGED <<pure, fs, contents, results, history>>

\* ------------------------------------------------------------ environment
\* One unit of time passes. A waiter only ever tests whether more than
\* lock_file_timeout_sec passed since its check time, so the elapsed time is
\* kept up to LockFileTimeoutSec + 1.
Elapse ==
  /\ \E t \in Tasks : pc[t] \in WaitPcs /\ ~TimedOut(since_check_time[t])
  /\ since_check_time' =
       [t \in Tasks |-> IF pc[t] \in WaitPcs /\ ~TimedOut(since_check_time[t])
                          THEN since_check_time[t] + 1 ELSE since_check_time[t]]
  /\ UNCHANGED <<pure, pc, fs, locked_tmp_dir_size, lock_file_content, task_uid,
                 cur_locked_tmp_dir_size, contents, results, history>>

Tick == Elapse /\ UNCHANGED waited

\* The same step of time, with the length of every wait recorded: the time
\* the clock of a waiter counted since its wait began, kept up to
\* 2 * LockFileTimeoutSec + 1. The time that really passed is at least that.
TimedTick ==
  /\ Elapse
  /\ waited' =
       [t \in Tasks |-> IF pc[t] \in WaitPcs /\ ~TimedOut(since_check_time[t])
                                           /\ waited[t] <= 2 * LockFileTimeoutSec
                          THEN waited[t] + 1 ELSE waited[t]]

\* The process of a caller is killed: it stops for good without running its
\* finally clause; what it left on the filesystem stays.
Crash(t) ==
  /\ pc[t] \in InCall
  /\ pc' = [pc EXCEPT ![t] = "crashed"]
  /\ ResetWait(t)
  /\ contents' = [contents EXCEPT ![t] = None]
  /\ ForgetWhenEnded(t)
  /\ UNCHANGED <<pure, fs, results, callHistory>>

Step(t) ==
  \/ Call(t)
  \/ TryLock(t)
  \/ Recheck(t)
  \/ MakeDirs(t)
  \/ DownloadCall(t)
  \/ DownloadWrite(t)
  \/ DownloadReturn(t)
  \/ WriteDescriptor(t)
  \/ Rename(t)
  \/ FinallyDeleteTmp(t)
  \/ FinallyReadLock(t)
  \/ FinallyRemoveLock(t)
  \/ WaitExists(t)
  \/ WaitLog(t)
  \/ WaitReadUid(t)
  \/ WaitDirSize(t)
  \/ WaitCompare(t)
  \/ WaitRemoveLock(t)
  \/ WaitSleep(t)
  \/ WaitSleepBreak(t)

Next ==
  \/ \E t \in Tasks : Step(t)
  \/ \E t \in Tasks : DownloadRaise(t)
  \/ \E t \in Tasks : Crash(t)
  \/ Tick

Spec == Init /\ [][Next]_vars

WaitNext ==
  \/ \E t \in Tasks : Step(t)
  \/ \E t \in Tasks : DownloadRaise(t)
  \/ \E t \in Tasks : Crash(t)
  \/ TimedTick

\* The executions of Spec with the length of every wait recorded.
WaitSpec == Init /\ [][WaitNext]_vars

\* The executions of the crash-recovery scenario: module_dir is absent at
\* the start, no download_fn raises, and a task is killed only while it holds
\* the lock and its temp directory exists.
LiveInit == Init /\ moduleDir = Absent

CrashHolding(t) ==
  /\ lockFile = _lock_file_contents(t)
  /\ Exists(tmpDir[t])
  /\ Crash(t)

LiveNext ==
  \/ \E t \in Tasks : Step(t)
  \/ \E t \in Tasks : CrashHolding(t)
  \/ Tick

\* Time advances, and every caller that is not killed keeps being scheduled:
\* each call runs in its own thread or process, and none of its steps blocks
\* on another task (waiting is the polling loop of line 226-256).
LiveSpec ==
  /\ LiveInit /\ [][LiveNext]_vars
  /\ WF_vars(Tick)
  /\ \A t \in Tasks : WF_vars(Step(t))

\* The executions without failure: no task is killed and no download_fn
\* raises; module_dir may or may not exist at the start. Scheduling as in
\* LiveSpec.
TerminationNext ==
  \/ \E t \in Tasks : Step(t)
  \/ Tick

TerminationSpec ==
  /\ Init /\ [][TerminationNext]_vars
  /\ WF_vars(Tick)
  /\ \A t \in Tasks : WF_vars(Step(t))

\* ------------------------------------------------------------------ faults
\* Interrupt as it would be without the try/finally of lines 289/330: an
\* interrupt in the body leaves the call at once.
InterruptSkipsFinally(t) ==
  /\ pc[t] \in InCall
  /\ pc' = [pc EXCEPT ![t] = "done"]
  /\ outcome' = [outcome EXCEPT ![t] = IF pc[t] \in FinallyPcs
                                         THEN "cleanup_interrupted"
                                         ELSE "interrupted"]
  /\ retval' = [retval EXCEPT ![t] = NoPath]
  /\ contents' = [contents EXCEPT ![t] = None]
  /\ ResetWait(t)
  /\ ForgetWhenEnded(t)
  /\ UNCHANGED <<pure, fs, callHistory>>

\* KeyboardInterrupt reaches the caller's thread. Inside the try block
\* (lines 289-328, the wait loop included) it runs the finally clause and
\* then leaves the call; inside the finally clause (lines 330-345) it leaves
\* the call at once, the rest of the cleanup is not run.
Interrupt(t) ==
  /\ pc[t] \in InCall
  /\ IF pc[t] \in FinallyPcs
       THEN /\ pc' = [pc EXCEPT ![t] = "done"]
            /\ outcome' = [outcome EXCEPT ![t] = "cleanup_interrupted"]
       ELSE /\ pc' = [pc EXCEPT ![t] = "fin_rmtree"]
            /\ outcome' = [outcome EXCEPT ![t] = "interrupted"]
  /\ retval' = [retval EXCEPT ![t] = NoPath]
  /\ contents' = [contents EXCEPT ![t] = None]
  /\ ResetWait(t)
  /\ ForgetWhenEnded(t)
  /\ UNCHANGED <<pure, fs, callHistory>>

\* Line 292 fails with an OpError although no lock file exists (disk full,
\* permission denied). Line 300 catches every OpError, so the caller goes on
\* to _wait_for_lock_to_disappear as it does for a lock that exists.
TryLockFails(t) ==
  /\ pc[t] = "try_lock"
  /\ ~Exists(lockFile)
  /\ pc' = [pc EXCEPT ![t] = "w_exists"]
  /\ ResetWait(t)
  /\ UNCHANGED <<pure, fs, contents, results, history>>

\* Line 333 fails with an error other than NotFoundError: line 334 does not
\* catch it, it leaves the finally clause (lines 336-345 are not run) and
\* is what the caller gets, whatever the try block had returned or raised.
FinallyDeleteTmpFails(t) ==
  /\ pc[t] = "fin_rmtree"
  /\ Exists(tmpDir[t])
  /\ pc' = [pc EXCEPT ![t] = "done"]
  /\ outcome' = [outcome EXCEPT ![t] = "cleanup_error"]
  /\ retval' = [retval EXCEPT ![t] = NoPath]
  /\ ForgetWhenEnded(t)
  /\ UNCHANGED <<pure, fs, waitLocals, contents, callHistory>>

\* Line 323 fails: the write of the descriptor's temp file (tf_utils line
\* 55-56) or its Rename (line 58, re-raised at 61) raises. Nothing between
\* line 323 and the finally clause catches it: the rename of line 325 is not
\* run and the error is what the caller gets after the cleanup.
WriteDescriptorFails(t) ==
  /\ pc[t] = "descriptor"
  /\ pc' = [pc EXCEPT ![t] = "fin_rmtree"]
  /\ outcome' = [outcome EXCEPT ![t] = "descriptor_error"]
  /\ ForgetWhenEnded(t)
  /\ UNCHANGED <<pure, fs, waitLocals, contents, retval, callHistory>>

InterruptNext ==
  \/ \E t \in Tasks : Step(t)
  \/ \E t \in Tasks : DownloadRaise(t)
  \/ \E t \in Tasks : Interrupt(t)
  \/ Tick

\* The executions in which callers are interrupted and none is killed.
InterruptSpec == Init /\ [][InterruptNext]_vars

StorageNext ==
  \/ Next
  \/ \E t \in Tasks : TryLockFails(t)
  \/ \E t \in Tasks : FinallyDeleteTmpFails(t)
  \/ \E t \in Tasks : WriteDescriptorFails(t)

\* The executions in which the lock write, the recursive delete and the
\* descriptor write may fail.
StorageSpec == Init /\ [][StorageNext]_vars

\* ------------------------------------------------- Resolver.get_module_path
\* Every operator below gives, next to its value, the methods it called, in
\* order: <<0, m>> is method m of the receiver, <<i, m>> method m of the
\* receiver's i-th child.
UnsupportedHandleError(called) ==
  [status |-> "UnsupportedHandleError", path |-> NoHandle, calls |-> called]

\* The path a stub resolves handle h to: no handle, and no other stub's path.
StubPath(c, h) == NHandles * c.id + h

\* ChildIsSupported as it would be if line 410 let the error of the
\* existence check count as support.
ChildIsSupportedOnError(c, h) ==
  IF c.kind = "PathResolver"
    THEN gfile \in {"exists", "error"}
    ELSE h \in c.supported

\* is_supported of a resolver that has no children. PathResolver, lines
\* 407-411: what tf.gfile.Exists returns, False when it raises.
ChildIsSupported(c, h) ==
  IF c.kind = "PathResolver"
    THEN CASE gfile = "exists" -> TRUE
           [] gfile = "missing" -> FALSE
           [] gfile = "error" -> FALSE
    ELSE h \in c.supported

\* _first_supported as a loop that does not stop at the first supporting
\* child: it gives the last one.
RECURSIVE _last_supported(_, _, _)
_last_supported(resolvers, h, i) ==
  IF i > Len(resolvers)
    THEN [resolver |-> 0, calls |-> <<>>]
    ELSE LET rest == _last_supported(resolvers, h, i + 1) IN
           [resolver |-> IF rest.resolver # 0 THEN rest.resolver
                         ELSE IF ChildIsSupported(resolvers[i], h) THEN i ELSE 0,
            calls |-> <<<<i, "is_supported">>>> \o rest.calls]

\* Lines 430-441, the loop from its i-th iteration on: the index of the
\* first child whose is_supported is true, 0 for None.
RECURSIVE _first_supported(_, _, _)
_first_supported(resolvers, h, i) ==
  IF i > Len(resolvers)
    THEN [resolver |-> 0, calls |-> <<>>]
    ELSE IF ChildIsSupported(resolvers[i], h)
           THEN [resolver |-> i, calls |-> <<<<i, "is_supported">>>>]
           ELSE LET rest == _first_supported(resolvers, h, i + 1) IN
                  [resolver |-> rest.resolver,
                   calls |-> <<<<i, "is_supported">>>> \o rest.calls]

\* is_supported of resolver r: lines 407-411 and 443-444.
is_supported(r, h) ==
  IF r.kind = "UseFirstSupportingResolver"
    THEN LET first == _first_supported(r.resolvers, h, 1) IN
           [value |-> first.resolver # 0, calls |-> first.calls]
    ELSE [value |-> ChildIsSupported(r, h), calls |-> <<>>]
RECURSIVE get_module_path(_, _, _)

\* _get_module_path of resolver r: PathResolver gives the handle back (line
\* 413-414), a stub its own path, UseFirstSupportingResolver (lines 446-467)
\* looks for the first supporting child again and delegates to it.
_get_module_path(r, h) ==
  CASE r.kind = "PathResolver" ->
         [status |-> "returned", path |-> h, calls |-> <<>>]
    [] r.kind = "Stub" ->
         [status |-> "returned", path |-> StubPath(r, h), calls |-> <<>>]
    [] r.kind = "UseFirstSupportingResolver" ->
         LET first == _first_supported(r.resolvers, h, 1) IN
           IF first.resolver = 0
             THEN UnsupportedHandleError(first.calls)
             ELSE LET got == get_module_path(r.resolvers[first.resolver], h,
                                             first.resolver) IN
                    [got EXCEPT !.calls = first.calls \o @]

\* Resolver.get_module_path, lines 372-388, called on resolver r, which is
\* the receiver (who = 0) or its child number who.
get_module_path(r, h, who) ==
  LET supported == is_supported(r, h)
      called == <<<<who, "get_module_path">>, <<who, "is_supported">>>>
                  \o supported.calls
  IN  IF supported.value
        THEN LET got == _get_module_path(r, h) IN
               [got EXCEPT !.calls = called \o <<<<who, "_get_module_path">>>> \o @]
        ELSE UnsupportedHandleError(called)

ResolverInit ==
  /\ DownloadInit /\ moduleDir = Absent
  /\ ExportsIdle /\ TimestampIdle /\ CacheDirIdle /\ WriteIdle
  /\ resolver \in Resolvers
  /\ handle \in Handles
  /\ gfile \in {"exists", "missing", "error"}
  /\ result = NoResult
  /\ calls = <<>>

\* resolver.get_module_path(handle) is called and ends.
GetModulePath ==
  /\ result = NoResult
  /\ LET got == get_module_path(resolver, handle, 0) IN
       /\ result' = [status |-> got.status, path |-> got.path]
       /\ calls' = got.calls
  /\ UNCHANGED <<pc, fs, waitLocals, contents, results, history, writeVars,
                 exportVars, timestampVars, cacheVars, resolver, handle, gfile>>

ResolverNext == GetModulePath

\* One call of get_module_path on each resolver, handle and file system.
ResolverSpec == ResolverInit /\ [][ResolverNext]_vars

\* -------------------------------------------------- garbage_collect_exports
\* A file name is the sequence of its characters: 0..9 are the decimal
\* digits, NonDigit is a character that is none.
NameLength == 10
NonDigit == 10

\* The name of export number v, as get_timestamped_export_dir makes it:
\* ten decimal digits.
VersionName(v) ==
  [i \in 1..NameLength |-> (v \div (10 ^ (NameLength - i))) % 10]

VersionNames == {VersionName(v) : v \in 1..MaxVersions}

\* Names that are no versions: nine digits, eleven digits, ten characters
\* of which one is no digit.
OtherNames ==
  {[i \in 1..(NameLength - 1) |-> 1],
   [i \in 1..(NameLength + 1) |-> 1],
   [VersionName(1) EXCEPT ![1] = NonDigit]}

\* str.isdigit()
isdigit(filename) ==
  /\ filename # <<>>
  /\ \A i \in 1..Len(filename) : filename[i] \in 0..9

\* int(filename) of a string of decimal digits
RECURSIVE int(_)
int(filename) ==
  IF filename = <<>>
    THEN 0
    ELSE 10 * int(SubSeq(filename, 1, Len(filename) - 1))
           + filename[Len(filename)]

\* Lines 146-152: the (version, path) tuples of the listed entries.
version_paths(entries) ==
  {<<int(filename), filename>> :
     filename \in {f \in entries : Len(f) = NameLength /\ isdigit(f)}}

\* sorted(version_paths): ascending by version; the versions of different
\* ten-digit names differ.
RECURSIVE sorted(_)
sorted(tuples) ==
  IF tuples = {}
    THEN <<>>
    ELSE LET least == CHOOSE x \in tuples : \A y \in tuples : x[1] <= y[1]
         IN  <<least>> \o sorted(tuples \ {least})

\* seq[:-k] of Python for k >= 0: the elements before position len - k,
\* none when that is negative; -0 is 0, so that seq[:-0] is seq[:0].
SliceUntilMinus(seq, k) ==
  LET stop == IF k = 0 THEN 0
              ELSE IF Len(seq) - k < 0 THEN 0 ELSE Len(seq) - k
  IN  SubSeq(seq, 1, stop)

\* exports_to_keep is None or <<k>> for the number k.
KeepValues == {None} \cup {<<k>> : k \in 0..(MaxVersions + 1)}

GcInit ==
  /\ DownloadInit /\ moduleDir = Absent
  /\ ResolverIdle /\ TimestampIdle /\ CacheDirIdle /\ WriteIdle
  /\ export_dir_base \in SUBSET (VersionNames \cup OtherNames)
  /\ exports_to_keep \in KeepValues
  /\ listed = {}
  /\ collected = FALSE

\* garbage_collect_exports(export_dir_base, exports_to_keep), lines 132-159,
\* with no other process changing the directory.
GarbageCollectExports ==
  /\ ~collected
  /\ collected' = TRUE
  /\ listed' = export_dir_base
  /\ IF exports_to_keep = None
       THEN UNCHANGED export_dir_base
       ELSE LET oldest_version_path ==
                  SliceUntilMinus(sorted(version_paths(export_dir_base)),
                                  exports_to_keep[1])
            IN  export_dir_base' =
                  export_dir_base \ {oldest_version_path[i][2] :
                                       i \in 1..Len(oldest_version_path)}
  /\ UNCHANGED <<pc, fs, waitLocals, contents, results, history, writeVars,
                 resolverVars, timestampVars, cacheVars, exports_to_keep>>

GcNext == GarbageCollectExports

\* One call of garbage_collect_exports on each directory and argument.
GcSpec == GcInit /\ [][GcNext]_vars

\* ----------------------------------------------- get_timestamped_export_dir
MAX_DIRECTORY_CREATION_ATTEMPTS == 10

\* str(n) of a natural number: its decimal digits.
RECURSIVE str(_)
str(n) == IF n < 10 THEN <<n>> ELSE str(n \div 10) \o <<n % 10>>

TimestampInit ==
  /\ DownloadInit /\ moduleDir = Absent
  /\ ResolverIdle /\ ExportsIdle /\ CacheDirIdle /\ WriteIdle
  /\ time \in 8..9
  /\ attempts = 0
  /\ export_dir = <<>>
  /\ exists_checks = <<>>
  /\ export_result = Running

\* ExportAttempt as it would be without line 102: attempts is not counted.
ExportAttemptNotCounted ==
  /\ export_result = Running
  /\ attempts < MAX_DIRECTORY_CREATION_ATTEMPTS
  /\ export_dir' = str(time)
  /\ \E existed \in BOOLEAN :
       /\ exists_checks' = Append(exists_checks, <<export_dir', existed>>)
       /\ IF ~existed
            THEN /\ export_result' = [status |-> "returned", path |-> export_dir']
                 /\ UNCHANGED time
            ELSE /\ \E slept \in 1..MaxSleep : time' = time + slept
                 /\ UNCHANGED export_result
  /\ UNCHANGED <<pc, fs, waitLocals, contents, results, history, writeVars,
                 resolverVars, exportVars, cacheVars, attempts>>

\* Lines 90-105, one iteration of the loop: the path is made of the current
\* time, tf.gfile.Exists answers for it (other workers write exports too, so
\* either answer is possible); the path is returned when it does not exist,
\* otherwise the call sleeps and counts the attempt.
ExportAttempt ==
  /\ export_result = Running
  /\ attempts < MAX_DIRECTORY_CREATION_ATTEMPTS
  /\ export_dir' = str(time)
  /\ \E existed \in BOOLEAN :
       /\ exists_checks' = Append(exists_checks, <<export_dir', existed>>)
       /\ IF ~existed
            THEN /\ export_result' = [status |-> "returned", path |-> export_dir']
                 /\ UNCHANGED <<time, attempts>>
            ELSE /\ \E slept \in 1..MaxSleep : time' = time + slept
                 /\ attempts' = attempts + 1
                 /\ UNCHANGED export_result
  /\ UNCHANGED <<pc, fs, waitLocals, contents, results, history, writeVars,
                 resolverVars, exportVars, cacheVars>>

\* Lines 90 and 106-107: the loop ends, RuntimeError is raised.
ExportRaise ==
  /\ export_result = Running
  /\ attempts >= MAX_DIRECTORY_CREATION_ATTEMPTS
  /\ export_result' = [status |-> "RuntimeError", path |-> <<>>]
  /\ UNCHANGED <<pc, fs, waitLocals, contents, results, history, writeVars,
                 resolverVars, exportVars, cacheVars, time, attempts, export_dir,
                 exists_checks>>

TimestampNext == ExportAttempt \/ ExportRaise

\* One call of get_timestamped_export_dir; the caller's thread keeps running
\* (tf.gfile.Exists and time.sleep return), hence the weak fairness.
TimestampSpec ==
  TimestampInit /\ [][TimestampNext]_vars /\ WF_vars(TimestampNext)

\* ------------------------------------------------------------ tfhub_cache_dir
\* Strings are sequences of integers, as file contents are.
CachePaths == {<<k>> : k \in 1..NPaths}

\* tempfile.gettempdir() and the name "tfhub_modules"
gettempdir == <<0>>
tfhub_modules == <<-3>>

\* os.path.join(a, b) of a directory and a relative name
join(a, b) == a \o b

\* The truth value Python gives a string or None.
Truthy(v) == v \notin {None, EmptyString}

\* a or b
Or(a, b) == IF Truthy(a) THEN a ELSE b

\* tfhub_cache_dir as it would be with the flag asked before the environment.
tfhub_cache_dir_flag_first(env, flg, default, temp) ==
  LET dir == Or(Or(flg, env), default) IN
    IF ~Truthy(dir) /\ temp THEN join(gettempdir, tfhub_modules) ELSE dir

\* Lines 66-75.
tfhub_cache_dir(env, flg, default, temp) ==
  LET dir == Or(Or(env, flg), default) IN
    IF ~Truthy(dir) /\ temp THEN join(gettempdir, tfhub_modules) ELSE dir

\* os.getenv(name, "") gives "" for a variable that is not set; the flag's
\* default is None (line 38), as is that of default_cache_dir.
CacheInit ==
  /\ DownloadInit /\ moduleDir = Absent
  /\ ResolverIdle /\ ExportsIdle /\ TimestampIdle /\ WriteIdle
  /\ environ \in {EmptyString} \cup CachePaths
  /\ flag \in {None, EmptyString} \cup CachePaths
  /\ default_cache_dir \in {None, EmptyString} \cup CachePaths
  /\ use_temp \in BOOLEAN
  /\ cache_dir = NotReturned

\* tfhub_cache_dir(default_cache_dir, use_temp) is called and returns.
TfhubCacheDir ==
  /\ cache_dir = NotReturned
  /\ cache_dir' = [returned |-> TRUE,
                   value |-> tfhub_cache_dir(environ, flag, default_cache_dir,
                                             use_temp)]
  /\ UNCHANGED <<pc, fs, waitLocals, contents, results, history, writeVars,
                 resolverVars, exportVars, timestampVars, environ, flag, default_cache_dir,
                 use_temp>>

CacheNext == TfhubCacheDir

\* One call of tfhub_cache_dir for each setting of environment, flag and
\* arguments.
CacheSpec == CacheInit /\ [][CacheNext]_vars

\* ------------------------------------------- atomic_write_string_to_file
\* tf_utils.atomic_write_string_to_file(lock_file, lock_contents,
\* overwrite=False), line 292 of resolver.py, followed call by call of the
\* filesystem. Every writer w writes _lock_file_contents(w) to a temp path of
\* its own (line 52-54: the name ends with a fresh uuid) and renames it.

\* What no step of a writer changes.
writeFrame == <<pc, fs, waitLocals, contents, results, history, resolverVars,
                exportVars, timestampVars, cacheVars>>

\* Line 292: overwrite=False
Overwrite(w) == FALSE

\* tf.gfile.Rename(src, dst, overwrite) raises when dst exists and overwrite
\* is false.
RenameAllowed(dst, overwrite) == overwrite \/ ~Exists(dst)

WriteInit == Init /\ moduleDir = Absent

AtomicWriteCall(w) ==
  /\ writing[w] = "idle"
  /\ writing' = [writing EXCEPT ![w] = "open"]
  /\ UNCHANGED <<writeFrame, target, temp_pathname, write_result>>

\* Line 55: the temp file is opened for writing; it exists, empty.
OpenTemp(w) ==
  /\ writing[w] = "open"
  /\ temp_pathname' = [temp_pathname EXCEPT ![w] = <<>>]
  /\ writing' = [writing EXCEPT ![w] = "write"]
  /\ UNCHANGED <<writeFrame, target, write_result>>

\* Line 56 and the close at the end of the with block: the content reaches
\* the temp file piece by piece; with the last piece the file is closed.
WriteTemp(w) ==
  /\ writing[w] = "write"
  /\ LET c == _lock_file_contents(w)
         n == Len(temp_pathname[w]) + 1
     IN /\ temp_pathname' = [temp_pathname EXCEPT ![w] = Append(@, c[n])]
        /\ writing' = [writing EXCEPT ![w] = IF n = Len(c) THEN "rename" ELSE "write"]
  /\ UNCHANGED <<writeFrame, target, write_result>>

\* Line 55-56 raise an OpError (no space, no permission): the with block is
\* outside the try of line 57, the error leaves the function at once and
\* what was written of the temp file stays.
WriteTempFails(w) ==
  /\ writing[w] \in {"open", "write"}
  /\ writing' = [writing EXCEPT ![w] = "done"]
  /\ write_result' = [write_result EXCEPT ![w] = "OpError"]
  /\ UNCHANGED <<writeFrame, target, temp_pathname>>

\* Line 58: tf.gfile.Rename(temp_pathname, filename, overwrite) moves the
\* complete temp file into place in one step, or raises (line 59).
RenameTemp(w) ==
  /\ writing[w] = "rename"
  /\ IF RenameAllowed(target, Overwrite(w))
       THEN /\ target' = temp_pathname[w]
            /\ temp_pathname' = [temp_pathname EXCEPT ![w] = Absent]
            /\ writing' = [writing EXCEPT ![w] = "done"]
            /\ write_result' = [write_result EXCEPT ![w] = "written"]
       ELSE /\ writing' = [writing EXCEPT ![w] = "remove"]
            /\ UNCHANGED <<target, temp_pathname, write_result>>
  /\ UNCHANGED writeFrame

\* Line 58 raises an OpError for another reason than an existing file.
RenameTempFails(w) ==
  /\ writing[w] = "rename"
  /\ writing' = [writing EXCEPT ![w] = "remove"]
  /\ UNCHANGED <<writeFrame, target, temp_pathname, write_result>>

\* Line 60-61: the temp file is removed and the error raised again.
RemoveTemp(w) ==
  /\ writing[w] = "remove"
  /\ temp_pathname' = [temp_pathname EXCEPT ![w] = Absent]
  /\ writing' = [writing EXCEPT ![w] = "done"]
  /\ write_result' = [write_result EXCEPT ![w] = "OpError"]
  /\ UNCHANGED <<writeFrame, target>>

\* The file is removed by its owner (resolver.py line 343) or by a waiter
\* (line 245).
RemoveTarget ==
  /\ Exists(target)
  /\ target' = Absent
  /\ UNCHANGED <<writeFrame, temp_pathname, writing, write_result>>

WriteNext ==
  \/ \E w \in Tasks : AtomicWriteCall(w)
  \/ \E w \in Tasks : OpenTemp(w)
  \/ \E w \in Tasks : WriteTemp(w)
  \/ \E w \in Tasks : WriteTempFails(w)
  \/ \E w \in Tasks : RenameTemp(w)
  \/ \E w \in Tasks : RenameTempFails(w)
  \/ \E w \in Tasks : RemoveTemp(w)
  \/ RemoveTarget

\* Concurrent lock writes of NTasks callers, with storage errors.
WriteSpec == WriteInit /\ [][WriteNext]_vars

\* ------------------------------------------------------------------ claims
Returned(t) == pc[t] = "done" /\ outcome[t] = "returned"

\* No caller crashed and no download_fn raised so far.
NoFailure == \A t \in Tasks : pc[t] # "crashed" /\ outcome[t] # "raised"

\* Every call that was made has returned, and at least one was made.
AllReturned ==
  /\ \A t \in Tasks : pc[t] = "idle" \/ Returned(t)
  /\ \E t \in Tasks : Returned(t)

\* C1 as stated: module_dir absent at the start, no crash, no failing
\* download: once all N callers have returned, download_fn was invoked exactly
\* once and every caller got module_dir, whatever the interleaving.
C1_ExactlyOneDownload ==
  (~existedAtStart /\ AllReturned) =>
    /\ downloadCalls = 1
    /\ \A t \in Tasks : Returned(t) => retval[t] = module_dir

\* C1 amended: the same, in the executions in which no waiter deleted a lock
\* file by the inactivity rule; there download_fn is also never invoked a
\* second time while calls are still running.
C1_ExactlyOneDownloadWithoutReclaim ==
  (~existedAtStart /\ NoFailure /\ reclaimedFrom = {}) =>
    /\ downloadCalls <= 1
    /\ AllReturned =>
         /\ downloadCalls = 1
         /\ \A t \in Tasks : Returned(t) => retval[t] = module_dir

\* Two callers have returned, one of which had to wait for the other's lock,
\* and no lock was reclaimed.
C1_Witness ==
  /\ ~existedAtStart /\ NoFailure /\ reclaimedFrom = {}
  /\ AllReturned
  /\ Cardinality({t \in Tasks : Returned(t)}) = NTasks
  /\ downloadCalls = 1

\* C2: when module_dir exists before any call, download_fn is never invoked
\* and no temporary download directory is ever created.
C2_FastPathNoDownload ==
  existedAtStart => (downloadCalls = 0 /\ \A t \in Tasks : tmpDir[t] = Absent)

\* module_dir existed from the start and every caller has returned.
C2_Witness ==
  /\ existedAtStart
  /\ \A t \in Tasks : Returned(t)

\* C3 as stated: a call made when module_dir already exists creates no lock
\* file and never waits on a lock file.
C3_FastPathNoLock ==
  \A t \in Tasks :
    existedAtCall[t] =>
      /\ lockFile # _lock_file_contents(t)
      /\ pc[t] \notin WaitPcs

\* A task was killed while it held the lock and its temp directory, before
\* it published anything.
CrashedHolder ==
  \E c \in Tasks :
    /\ pc[c] = "crashed"
    /\ lockFile = _lock_file_contents(c)
    /\ Exists(tmpDir[c])

\* C4: once a killed task has left its lock and temp directory behind, every
\* caller (those running then and those that call later) that is not killed
\* itself eventually returns module_dir; no download_fn raises in LiveSpec.
C4_CrashRecovery ==
  CrashedHolder
    ~> (\A t \in Tasks :
          \/ Returned(t) /\ retval[t] = module_dir /\ Exists(moduleDir)
          \/ pc[t] = "crashed")

\* A caller returned although the lock of a killed task was in its way: the
\* killed task's lock was reclaimed and its temp directory is still there.
C4_Witness ==
  \E c \in Tasks, t \in Tasks :
    /\ pc[c] = "crashed" /\ Exists(tmpDir[c]) /\ c \in reclaimedFrom
    /\ Returned(t) /\ moduleDir = DownloadOutput(t)

\* C5 as stated: whenever the cleanup of a task removes the lock file, the
\* lock file's content at that moment is that task's own identity string.
C5_OwnershipCheckedRelease ==
  [][\A t \in Tasks :
       (pc[t] = "fin_remove" /\ pc'[t] = "done"
          /\ Exists(lockFile) /\ ~Exists(lockFile'))
         => lockFile = _lock_file_contents(t)]_vars

\* C6: a waiter that is about to delete the lock has a previous sample (its
\* recorded content is a lock content, not None), taken more than
\* lock_file_timeout_sec ago, and the sample it just took shows the content
\* and the size of that previous sample; the lock content it recorded is never
\* its own. A sample that differs in size or content from the previous one
\* does not lead to the deletion: it is recorded and the window restarts.
C6_ReclamationRule ==
  /\ [](\A t \in Tasks :
         pc[t] = "w_remove" =>
           /\ lock_file_content[t] # None
           /\ lock_file_content[t] # _lock_file_contents(t)
           /\ TimedOut(since_check_time[t]))
  /\ [][\A t \in Tasks :
          (pc[t] = "w_content" /\ pc'[t] # "w_content" /\ pc'[t] # "crashed"
             /\ Exists(lockFile))
            => IF /\ cur_locked_tmp_dir_size[t] = locked_tmp_dir_size[t]
                  /\ lockFile = lock_file_content[t]
                 THEN /\ pc'[t] = "w_remove"
                      /\ lock_file_content'[t] = lockFile
                      /\ locked_tmp_dir_size'[t] = cur_locked_tmp_dir_size[t]
                 ELSE /\ pc'[t] = "w_sleep"
                      /\ lockFile' = lockFile
                      /\ lock_file_content'[t] = lockFile
                      /\ locked_tmp_dir_size'[t] = cur_locked_tmp_dir_size[t]
                      /\ since_check_time'[t] = 0]_vars

\* A waiter deleted a lock by the inactivity rule after an earlier sample of
\* its own had differed in size from the one before.
C6_Witness ==
  \E t \in Tasks :
    /\ pc[t] = "w_sleep_brk"
    /\ locked_tmp_dir_size[t] > 0
    /\ lock_file_content[t] # None
    /\ reclaimedFrom # {}

\* C7: once module_dir exists, no step removes it or changes its content.
C7_PublishedImmutable ==
  [][Exists(moduleDir) => moduleDir' = moduleDir]_vars

\* A task's rename found module_dir already published by another task: it
\* still has its own complete temp directory, and module_dir is the other's.
C7_Witness ==
  \E t \in Tasks :
    /\ pc[t] = "fin_rmtree"
    /\ tmpDir[t] = DownloadOutput(t)
    /\ Exists(moduleDir) /\ moduleDir # DownloadOutput(t)

\* C8: module_dir appears only by the rename of the temp directory of a task
\* whose download_fn returned, in one step that makes the temp directory
\* disappear, and whenever module_dir exists its content is the complete
\* output of one download_fn call.
C8_NoPartialVisibility ==
  /\ [](Exists(moduleDir) =>
          \E u \in 0..NTasks : moduleDir = DownloadOutput(u))
  /\ [][(~Exists(moduleDir) /\ Exists(moduleDir'))
          => \E t \in Tasks :
               /\ pc[t] = "rename" /\ pc'[t] = "fin_rmtree"
               /\ outcome[t] = "none" /\ outcome'[t] = "returned"
               /\ tmpDir[t] = DownloadOutput(t)
               /\ moduleDir' = tmpDir[t]
               /\ tmpDir'[t] = Absent]_vars

\* module_dir was published by one task while another task, which reclaimed
\* or lost the lock, is downloading into its own temp directory.
C8_Witness ==
  \E t \in Tasks, u \in Tasks :
    /\ t # u
    /\ moduleDir = DownloadOutput(t)
    /\ pc[u] = "downloading" /\ Exists(tmpDir[u])
    /\ reclaimedFrom # {}

\* C9: a call that has returned normally returned module_dir, and module_dir
\* exists then and ever after.
C9_ReturnImpliesExists ==
  \A t \in Tasks :
    (outcome[t] = "returned" /\ pc[t] \in FinallyPcs \cup {"done"})
      => (Exists(moduleDir) /\ retval[t] = module_dir)

\* Three calls have returned: one published its download, one found
\* module_dir at its rename or re-check, one was called with module_dir there.
C9_Witness ==
  \E t \in Tasks, u \in Tasks, v \in Tasks :
    /\ Returned(t) /\ Returned(u) /\ Returned(v)
    /\ moduleDir = DownloadOutput(t)
    /\ u # t /\ ~existedAtCall[u]
    /\ existedAtCall[v]

\* C10 as stated: when download_fn raised in a call that held the lock, and
\* no waiter reclaimed that lock, then at the end of the call the error is the
\* outcome, nothing was returned, this call did not create module_dir, and
\* neither its temp directory nor the lock file exists.
C10_DownloadFailureCleanup ==
  [][\A t \in Tasks :
       (pc[t] # "done" /\ pc'[t] = "done" /\ t \in raisedHolding
          /\ t \notin reclaimedFrom')
         => /\ outcome'[t] = "raised" /\ retval'[t] = NoPath
            /\ moduleDir' # DownloadOutput(t)
            /\ tmpDir'[t] = Absent
            /\ lockFile' = Absent]_vars

\* The call of t has ended and left nothing of its own behind.
CleanedUp(t) ==
  pc[t] = "done" => /\ tmpDir[t] = Absent
                    /\ lockFile # _lock_file_contents(t)

\* C11 as stated: every call that has ended by a return, by download_fn's
\* error or by an interrupt at any point, the cleanup included, has no
\* temporary directory left and the lock file does not carry its identity.
C11_CleanupOnEveryExit ==
  \A t \in Tasks :
    outcome[t] \in {"returned", "raised", "interrupted", "cleanup_interrupted"}
      => CleanedUp(t)

\* C11 (amended): every call that has ended by a return, by download_fn's
\* error or by an interrupt inside the try block (the cleanup itself ran to
\* its end) has no temporary directory left and the lock file does not carry
\* its identity; when all calls have ended so and no process was killed, no
\* lock file and no temporary directory remain.
C11_CleanupOnExit ==
  /\ \A t \in Tasks :
       outcome[t] \in {"returned", "raised", "interrupted"} => CleanedUp(t)
  /\ (\A t \in Tasks :
        pc[t] = "done" /\ outcome[t] \in {"returned", "raised", "interrupted"})
       => /\ lockFile = Absent
          /\ \A t \in Tasks : tmpDir[t] = Absent

\* All calls have ended: one returned, one by download_fn's error and one
\* by an interrupt, and a download had begun.
C11_Witness ==
  /\ \A t \in Tasks : pc[t] = "done"
  /\ \E t, u, v \in Tasks :
       /\ outcome[t] = "returned"
       /\ outcome[u] = "raised"
       /\ outcome[v] = "interrupted"
  /\ downloadCalls >= 2

\* C12: when the lock write of a caller fails although no lock file exists
\* (the file is still absent after the step), the caller does not go on to
\* wait or retry: the call is ending with that error raised.
C12_StorageFailureSurfaced ==
  [][\A t \in Tasks :
       (/\ pc[t] = "try_lock"
        /\ ~Exists(lockFile)
        /\ ~Exists(lockFile')
        /\ pc'[t] \notin {"try_lock", "crashed"})
         => /\ pc'[t] \notin WaitPcs \cup {"try_lock"}
            /\ outcome'[t] = "raised"]_vars

\* C13: a task whose Rename finds module_dir in place does not raise and
\* is about to return module_dir, which the step leaves as it was; no later
\* step of that task changes module_dir; once it is past line 335 its own
\* temporary directory is gone, and once its call has ended it has returned
\* module_dir and the lock file does not carry its identity.
C13_PublishRaceBenign ==
  /\ [][\A t \in Tasks :
          /\ (pc[t] = "rename" /\ pc'[t] = "fin_rmtree" /\ Exists(moduleDir))
               => /\ outcome'[t] = "returned"
                  /\ retval'[t] = module_dir
                  /\ moduleDir' = moduleDir
          /\ (t \in lostRace /\ pc'[t] # pc[t]) => moduleDir' = moduleDir]_vars
  /\ [](\A t \in lostRace :
          /\ Exists(moduleDir)
          /\ pc[t] \in {"fin_read", "fin_remove", "done"} => tmpDir[t] = Absent
          /\ pc[t] = "done" => /\ Returned(t)
                               /\ retval[t] = module_dir
                               /\ lockFile # _lock_file_contents(t))

\* Two tasks lost the publish race against a third and their calls have
\* ended.
C13_Witness ==
  \E t, u \in lostRace :
    /\ t # u
    /\ pc[t] = "done" /\ pc[u] = "done"
    /\ \E w \in Tasks \ {t, u} : moduleDir = DownloadOutput(w)

\* No task other than t is inside a call or was killed.
NoOtherActive(t) == \A u \in Tasks \ {t} : pc[u] \in {"idle", "done"}

\* C14: a call that begins when module_dir exists never invokes download_fn
\* and none of its steps changes module_dir, the descriptor or a temporary
\* directory; when it has ended it has returned module_dir and the lock
\* file does not carry its identity; with no other task active no lock
\* file and no temporary directory remain.
C14_IdempotentReentry ==
  /\ [][\A t \in Tasks :
          (existedAtCall[t] /\ pc'[t] # pc[t])
            => /\ pc'[t] \notin {"mkdirs", "call_download", "downloading",
                                 "descriptor", "rename"}
               /\ downloadCalls' = downloadCalls
               /\ moduleDir' = moduleDir
               /\ descriptor' = descriptor
               /\ tmpDir' = tmpDir]_vars
  /\ [](\A t \in Tasks :
          (existedAtCall[t] /\ pc[t] = "done")
            => /\ Returned(t)
               /\ retval[t] = module_dir
               /\ Exists(moduleDir)
               /\ lockFile # _lock_file_contents(t)
               /\ NoOtherActive(t)
                    => /\ lockFile = Absent
                       /\ \A u \in Tasks : tmpDir[u] = Absent)

\* A first call downloaded and returned; a call that began afterwards has
\* ended too and no other task is active.
C14_Witness ==
  \E t, u \in Tasks :
    /\ ~existedAtStart /\ downloadCalls = 1
    /\ Returned(u) /\ ~existedAtCall[u]
    /\ existedAtCall[t] /\ pc[t] = "done"
    /\ NoOtherActive(t)

\* C15: when download_fn has raised and the cleanup of the call leaves
\* line 333, by success or by failure of the recursive delete, the caller
\* is still to get download_fn's error and the cleanup goes on to the
\* ownership-checked release of the lock (line 336).
C15_CleanupKeepsPrimaryError ==
  [][\A t \in Tasks :
       (/\ outcome[t] = "raised"
        /\ pc[t] = "fin_rmtree"
        /\ pc'[t] \notin {"fin_rmtree", "crashed"})
         => /\ outcome'[t] = "raised"
            /\ pc'[t] = "fin_read"]_vars

\* C16: the temporary directory of a task u changes only in a step of u
\* itself (no other task moves or has its directory changed in that step),
\* taken at MakeDirs, inside download_fn, at the Rename or at the delete of
\* the finally clause; no step of a waiter, the reclaiming Remove included,
\* changes any temporary directory.
C16_TmpDirIsolation ==
  [][/\ \A u \in Tasks :
          tmpDir'[u] # tmpDir[u]
            => /\ pc[u] \in {"mkdirs", "downloading", "rename", "fin_rmtree"}
               /\ \A v \in Tasks \ {u} : pc'[v] = pc[v] /\ tmpDir'[v] = tmpDir[v]
     /\ \A v \in Tasks :
          (pc[v] \in WaitPcs /\ pc'[v] # pc[v]) => tmpDir' = tmpDir]_vars

\* A waiter has reclaimed the lock of a task that is still downloading; the
\* task's temporary directory is there, next to that of a second downloader.
C16_Witness ==
  \E u \in reclaimedFrom : \E v \in Tasks \ {u} :
    /\ pc[u] = "downloading" /\ tmpDir[u] = DownloadOutput(u)
    /\ pc[v] = "downloading" /\ tmpDir[v] = DownloadOutput(v)

\* C17: a caller whose lock write finds the lock file in place does not
\* raise: it goes on to wait for the lock, the lock file is as it was and
\* the call's outcome is still open; a caller leaves the wait only to try
\* the lock write again.
C17_ContentionNotSurfaced ==
  [][\A t \in Tasks :
       /\ (pc[t] = "try_lock" /\ Exists(lockFile)
           /\ pc'[t] \notin {"try_lock", "crashed"})
            => /\ pc'[t] = "w_exists"
               /\ lockFile' = lockFile
               /\ outcome'[t] = "none"
       /\ (pc[t] \in WaitPcs /\ pc'[t] \notin WaitPcs \cup {"crashed"})
            => /\ pc'[t] = "try_lock"
               /\ outcome'[t] = "none"]_vars

\* A caller is inside the wait loop after its lock write failed; the lock
\* file holds the content of the task that is downloading.
C17_Witness ==
  \E t, u \in Tasks :
    /\ t # u
    /\ pc[t] = "w_log" /\ outcome[t] = "none"
    /\ pc[u] = "downloading"
    /\ lockFile = _lock_file_contents(u)

\* The calls of method m on the receiver itself, as positions in `calls`.
OwnCalls(m) == {i \in 1..Len(calls) : calls[i] = <<0, m>>}

\* C18: a get_module_path call has raised UnsupportedHandleError exactly
\* when is_supported(handle) is false for the receiver, and then it called
\* is_supported once and _get_module_path not at all; PathResolver returns
\* the handle itself when the path exists and raises when the path does not
\* exist or the existence check fails.
C18_UnsupportedHandle ==
  result # NoResult =>
    /\ result.status = "UnsupportedHandleError"
         <=> ~is_supported(resolver, handle).value
    /\ result.status = "UnsupportedHandleError"
         => /\ Cardinality(OwnCalls("is_supported")) = 1
            /\ OwnCalls("_get_module_path") = {}
            /\ result.path = NoHandle
    /\ result.status # "UnsupportedHandleError"
         => /\ result.status = "returned"
            /\ Cardinality(OwnCalls("_get_module_path")) = 1
    /\ resolver = PathResolver
         => IF gfile = "exists"
              THEN result = [status |-> "returned", path |-> handle]
              ELSE result.status = "UnsupportedHandleError"

\* PathResolver was asked for a handle whose existence check fails, and
\* has raised.
C18_Witness ==
  /\ resolver = PathResolver
  /\ gfile = "error"
  /\ result.status = "UnsupportedHandleError"

\* The children of the composite receiver that support the handle.
Supporting ==
  {i \in 1..Len(resolver.resolvers) :
     is_supported(resolver.resolvers[i], handle).value}

\* C19: a get_module_path call on a UseFirstSupportingResolver has raised
\* UnsupportedHandleError when no child supports the handle (the empty list
\* included); otherwise it ended as get_module_path of the supporting child
\* with the least index does, that child's get_module_path was called, and
\* no method of a later child was.
C19_FirstSupporting ==
  (result # NoResult /\ resolver.kind = "UseFirstSupportingResolver") =>
    IF Supporting = {}
      THEN /\ result.status = "UnsupportedHandleError"
           /\ \A i \in 1..Len(calls) : calls[i][2] # "get_module_path" \/ calls[i][1] = 0
      ELSE LET k == CHOOSE i \in Supporting : \A j \in Supporting : i <= j
               child == get_module_path(resolver.resolvers[k], handle, k)
           IN  /\ result = [status |-> child.status, path |-> child.path]
               /\ \E i \in 1..Len(calls) : calls[i] = <<k, "get_module_path">>
               /\ \A i \in 1..Len(calls) : calls[i][1] <= k

\* The composite has two children that both support the handle and resolve
\* it differently; the call returned the path of the first.
C19_Witness ==
  /\ resolver.kind = "UseFirstSupportingResolver"
  /\ Len(resolver.resolvers) = 2
  /\ Supporting = {1, 2}
  /\ resolver.resolvers[2] = PathResolver
  /\ result = [status |-> "returned",
               path |-> StubPath(resolver.resolvers[1], handle)]

\* The names of ten decimal digits among the entries.
Versions(entries) ==
  {f \in entries : Len(f) = NameLength /\ \A i \in 1..Len(f) : f[i] \in 0..9}

\* The m entries of S with the largest version numbers.
Newest(S, m) ==
  {f \in S : Cardinality({g \in S : int(g) > int(f)}) < m}

\* C20: after garbage_collect_exports with a number k >= 0, of the n
\* ten-digit names that were in the directory exactly the min(k, n) with
\* the largest version numbers remain, and every other name is as it was;
\* with None the directory is as it was.
C20_GarbageCollectExports ==
  collected =>
    IF exports_to_keep = None
      THEN export_dir_base = listed
      ELSE /\ Versions(export_dir_base)
                = Newest(Versions(listed), exports_to_keep[1])
           /\ export_dir_base \ Versions(export_dir_base)
                = listed \ Versions(listed)

\* The same for the numbers k >= 1 only, as the code has it.
GarbageCollectKeepsAtLeastOne ==
  (collected /\ exports_to_keep \notin {None, <<0>>}) =>
    /\ Versions(export_dir_base) = Newest(Versions(listed), exports_to_keep[1])
    /\ export_dir_base \ Versions(export_dir_base) = listed \ Versions(listed)

\* C21: a path is returned only when the existence check of the same
\* attempt, on that path, answered false; there are never more than
\* MAX_DIRECTORY_CREATION_ATTEMPTS existence checks; RuntimeError is raised
\* exactly when that many checks were made and each found its path existing;
\* every call ends.
C21_TimestampedExportDir ==
  /\ [](LET n == Len(exists_checks) IN
          /\ n <= MAX_DIRECTORY_CREATION_ATTEMPTS
          /\ export_result.status = "returned"
               => /\ n >= 1
                  /\ exists_checks[n] = <<export_result.path, FALSE>>
          /\ export_result.status = "RuntimeError"
               <=> /\ n = MAX_DIRECTORY_CREATION_ATTEMPTS
                   /\ \A i \in 1..n : exists_checks[i][2]
                   /\ export_result # Running)
  /\ <>(export_result # Running)

\* The call raised RuntimeError after ten attempts.
C21_Witness ==
  /\ export_result.status = "RuntimeError"
  /\ attempts = MAX_DIRECTORY_CREATION_ATTEMPTS

\* C22: tfhub_cache_dir returns the first non-empty value among the
\* environment variable, the flag and default_cache_dir, in that order; when
\* all three are empty it returns <system temp>/tfhub_modules if use_temp is
\* true and an empty string or None otherwise.
C22_CacheDirPrecedence ==
  cache_dir.returned =>
    LET settings == <<environ, flag, default_cache_dir>>
        set == {i \in 1..3 : settings[i] # None /\ Len(settings[i]) > 0}
    IN  IF set # {}
          THEN \E i \in set : /\ \A j \in set : i <= j
                              /\ cache_dir.value = settings[i]
          ELSE IF use_temp
                 THEN cache_dir.value = <<0, -3>>
                 ELSE cache_dir.value \in {None, EmptyString}

\* Environment variable and flag are both set, to different directories;
\* the call returned that of the environment.
C22_Witness ==
  /\ environ \in CachePaths /\ flag \in CachePaths /\ environ # flag
  /\ cache_dir = [returned |-> TRUE, value |-> environ]

\* The executions C23 speaks of: so far no waiter deleted a lock by the
\* inactivity rule and no task crashed.
NoReclaimNoCrash == reclaimedFrom = {} /\ \A t \in Tasks : pc[t] # "crashed"

\* C23: as long as no waiter deleted a lock by the inactivity rule and no task
\* crashed, at most one task is between its successful lock creation and the
\* end of its cleanup, at most one temp directory exists and at most one
\* download_fn call is in progress.
C23_MutualExclusion ==
  NoReclaimNoCrash =>
    /\ Cardinality(created) <= 1
    /\ Cardinality({t \in Tasks : Exists(tmpDir[t])}) <= 1
    /\ Cardinality({t \in Tasks : pc[t] = "downloading"}) <= 1
    /\ \A t \in Tasks : (Exists(tmpDir[t]) \/ pc[t] = "downloading")
                          => t \in created

\* A task is downloading into its temp directory while another one, which
\* found the lock taken, waits.
C23_Witness ==
  /\ NoReclaimNoCrash
  /\ \E t, u \in Tasks :
       /\ t # u
       /\ pc[t] = "downloading" /\ Exists(tmpDir[t]) /\ created = {t}
       /\ pc[u] \in WaitPcs

\* C24: when a waiter deletes the lock file by the inactivity rule, the file
\* it deletes has the content the waiter sampled last and judged inactive: it
\* is never a lock that another task created after that sample.
C24_ReclaimedLockIsJudgedLock ==
  [][\A t \in Tasks :
       (pc[t] = "w_remove" /\ Exists(lockFile) /\ lockFile' = Absent
          /\ pc'[t] = "w_sleep_brk")
         => lockFile = lock_file_content[t]]_vars

\* C25: a task invokes download_fn only after its own lock write succeeded in
\* the same call and after it then found module_dir absent; a step of a task
\* without a lock of its own creates no temp directory, invokes no
\* download_fn and changes nothing at module_dir.
C25_DownloadPrecondition ==
  /\ [](sawAbsent \subseteq created)
  /\ [][\A t \in Tasks :
          /\ (pc[t] = "call_download" /\ pc'[t] = "downloading")
               => t \in created /\ t \in sawAbsent
          /\ (pc'[t] # pc[t] /\ t \notin created)
               => /\ tmpDir' = tmpDir
                  /\ downloadCalls' = downloadCalls
                  /\ moduleDir' = moduleDir]_vars

\* A task that created the lock and found module_dir absent is inside
\* download_fn; another one, whose lock write failed, is in the wait loop.
C25_Witness ==
  \E t, u \in Tasks :
    /\ pc[t] = "downloading" /\ t \in sawAbsent /\ downloadCalls > 0
    /\ pc[u] \in WaitPcs /\ u \notin created

\* The steps of task t on the path of lines 296-298 and in the cleanup that
\* follows: found at the re-check, module_dir is the result, and neither that
\* step nor a step of the cleanup makes a temp directory, calls download_fn,
\* writes the descriptor or changes the result; the call ends with a lock
\* file that does not carry the task's identity, and, unless `deleted`, it is
\* the last step of the task that deletes the lock it created.
ReturnsAtRecheck(t, deleted) ==
  /\ (pc[t] = "recheck" /\ pc'[t] # pc[t] /\ pc'[t] # "crashed"
        /\ Exists(moduleDir))
       => /\ t \in created
          /\ pc'[t] = "fin_rmtree"
          /\ outcome'[t] = "returned" /\ retval'[t] = module_dir
          /\ ~Exists(tmpDir'[t])
          /\ downloadCalls' = downloadCalls
          /\ descriptor' = descriptor
  /\ (pc[t] \in FinallyPcs /\ pc'[t] # pc[t] /\ pc'[t] # "crashed")
       => /\ pc'[t] \in FinallyPcs \cup {"done"}
          /\ outcome'[t] = outcome[t] /\ retval'[t] = retval[t]
          /\ ~Exists(tmpDir'[t])
          /\ downloadCalls' = downloadCalls
          /\ descriptor' = descriptor
          /\ moduleDir' = moduleDir
          /\ pc'[t] = "done"
               => /\ lockFile' # _lock_file_contents(t)
                  /\ ~deleted => /\ lockFile = _lock_file_contents(t)
                                 /\ lockFile' = Absent

\* C26 as stated: a task whose lock creation succeeded and which finds
\* module_dir at the re-check returns module_dir, creates no temp directory,
\* invokes no download_fn, writes no descriptor, and deletes the lock file it
\* created before the call ends.
C26_RecheckDeletesOwnLock ==
  [][\A t \in Tasks : ReturnsAtRecheck(t, FALSE)]_vars

\* C26, amended: the same, but the task deletes the lock it created itself
\* only in executions where no waiter deleted a lock by the inactivity rule;
\* in the others its lock may be gone, or replaced, when it comes to delete
\* it. In every execution the lock file does not carry its identity when its
\* call ends.
C26_RecheckReturnPath ==
  [][\A t \in Tasks : ReturnsAtRecheck(t, reclaimedFrom # {})]_vars

\* Task u downloaded and published module_dir; task t, which was called
\* before module_dir existed, did not download: it created the lock after u
\* released it, found module_dir at the re-check and returned, and no lock
\* and no temp directory are left.
C26_Witness ==
  \E t, u \in Tasks :
    /\ t # u
    /\ moduleDir = DownloadOutput(u) /\ downloadCalls = 1
    /\ Returned(t) /\ retval[t] = module_dir /\ ~existedAtCall[t]
    /\ reclaimedFrom = {}
    /\ lockFile = Absent /\ ~Exists(tmpDir[t])

\* C27: a waiter that finds the lock file gone when it reads it (lines 231,
\* 199, 237) or deletes it (line 245), or the holder's temp directory gone
\* when it measures it (line 201), raises nothing: the missing directory
\* counts as size 0, the missing lock ends the iteration with the sleep of
\* line 256, and the loop goes on. The wait loop is left only at line 226
\* with the lock file absent, or after the waiter's own deletion of the lock,
\* and then the lock write of line 292 is tried again.
C27_BenignDisappearance ==
  [][\A t \in Tasks :
       (pc[t] \in WaitPcs /\ pc'[t] # pc[t] /\ pc'[t] # "crashed")
         => /\ outcome'[t] = "none" /\ retval'[t] = NoPath
            /\ pc'[t] \in WaitPcs \cup {"try_lock"}
            /\ (pc[t] \in {"w_log", "w_uid", "w_content", "w_remove"}
                  /\ ~Exists(lockFile)) => pc'[t] = "w_sleep"
            /\ pc[t] = "w_sleep" => pc'[t] = "w_exists"
            /\ (pc[t] = "w_size" /\ ~Exists(tmpDir[task_uid[t]]))
                 => pc'[t] = "w_content" /\ cur_locked_tmp_dir_size'[t] = 0
            /\ (pc[t] = "w_exists" /\ ~Exists(lockFile)) => pc'[t] = "try_lock"
            /\ pc'[t] = "try_lock"
                 => \/ pc[t] = "w_exists" /\ ~Exists(lockFile)
                    \/ pc[t] = "w_sleep_brk"]_vars

\* A waiter that had measured a download in progress has now measured the
\* holder's temp directory after it was removed (size 0), and is about to
\* read the content of a lock file that has been removed as well.
C27_Witness ==
  \E t \in Tasks :
    /\ pc[t] = "w_content" /\ outcome[t] = "none"
    /\ locked_tmp_dir_size[t] > 0 /\ cur_locked_tmp_dir_size[t] = 0
    /\ ~Exists(lockFile)

\* C28: when no task is killed and no download_fn raises, with every task
\* scheduled again and again and time advancing, every call eventually
\* returns module_dir, which then exists; nobody is left waiting.
C28_AllCallersTerminate ==
  <>(\A t \in Tasks :
       Returned(t) /\ retval[t] = module_dir /\ Exists(moduleDir))

\* All calls returned after a waiter had deleted the lock of a slow holder
\* and two tasks had run download_fn.
C28_Witness ==
  /\ \A t \in Tasks : Returned(t) /\ retval[t] = module_dir
  /\ reclaimedFrom # {} /\ downloadCalls >= 2
  /\ lockFile = Absent

\* C29: whether the descriptor write of a task succeeds or fails, the task
\* goes on to the rename that publishes module_dir, and no error is set for
\* its call.
C29_DescriptorBestEffort ==
  [][\A t \in Tasks :
       (pc[t] = "descriptor" /\ pc'[t] \notin {"descriptor", "crashed"})
         => /\ pc'[t] = "rename"
            /\ outcome'[t] = "none"]_vars

\* C30: the descriptor file changes only in a step of a task whose
\* download_fn returned in this call and has set no error, the step from
\* line 323 to the rename of line 325; no waiter, no task whose download_fn
\* raised and no task in its cleanup writes it. A task at the rename has
\* written it: the descriptor exists, whether module_dir does or not.
C30_DescriptorOrdering ==
  /\ [][descriptor' # descriptor
          => \E t \in fetched :
               /\ pc[t] = "descriptor" /\ pc'[t] = "rename"
               /\ outcome[t] = "none"
               /\ descriptor' = <<t>>
               /\ moduleDir' = moduleDir
               /\ \A u \in Tasks \ {t} : pc'[u] = pc[u]]_vars
  /\ [](\A t \in Tasks :
          pc[t] = "rename" => t \in fetched /\ Exists(descriptor))

\* The descriptor exists while module_dir does not: its writer has not
\* renamed yet.
DescriptorWithoutModule ==
  \E t \in Tasks : descriptor = <<t>> /\ pc[t] = "rename" /\ ~Exists(moduleDir)

\* The descriptor was overwritten by task t, whose rename then found the
\* module_dir that task u had published.
C30_Witness ==
  \E t \in lostRace, u \in Tasks :
    /\ t # u
    /\ descriptor = <<t>>
    /\ moduleDir = DownloadOutput(u)
    /\ Returned(t) /\ Returned(u)

\* The steps of the staleness check of a waiter (lines 236-249).
CheckPcs == {"w_uid", "w_size", "w_content", "w_remove"}

\* The first staleness check of a waiter, made with no recorded lock content,
\* begins after more than one timeout window and never leads to the deletion;
\* a waiter that is about to delete the lock has waited for more than two
\* timeout windows.
FirstCheckNeverReclaims ==
  /\ [](\A t \in Tasks :
          /\ pc[t] \in CheckPcs => waited[t] > LockFileTimeoutSec
          /\ pc[t] = "w_remove" => /\ lock_file_content[t] # None
                                   /\ waited[t] > 2 * LockFileTimeoutSec)
  /\ [][\A t \in Tasks :
          (pc[t] = "w_content" /\ lock_file_content[t] = None
             /\ pc'[t] \notin {"w_content", "crashed"})
            => /\ pc'[t] = "w_sleep"
               /\ lockFile' = lockFile]_vars

\* Every staleness check begins when more than one timeout window has passed
\* on the waiter's clock, and unless it deletes the lock it ends with the
\* clock restarted, so that the next poll of the waiter does not check again.
OneCheckPerWindow ==
  [][\A t \in Tasks :
       /\ (pc[t] = "w_log" /\ pc'[t] = "w_uid")
            => TimedOut(since_check_time[t])
       /\ (pc[t] \in CheckPcs /\ pc'[t] = "w_sleep")
            => since_check_time'[t] = 0]_vars

\* C31: the first staleness check of a waiter never deletes the lock, a
\* waiter deletes the lock only after more than two timeout windows of
\* waiting, and it checks at most once per timeout window.
C31_NoReclaimAtFirstCheck ==
  FirstCheckNeverReclaims /\ OneCheckPerWindow

\* A step of the cleanup of task t, taken at one of the places `at` while
\* the lock file carries the identity of another task, leaves the lock file,
\* module_dir and the temp directories of the others as they are; of its own
\* temp directory it can only make an end.
NonOwnerCleanup(t, at) ==
  (/\ pc[t] \in at /\ pc'[t] \notin {pc[t], "crashed"}
   /\ Exists(lockFile) /\ lockFile # _lock_file_contents(t))
    => /\ lockFile' = lockFile
       /\ moduleDir' = moduleDir
       /\ \A u \in Tasks \ {t} : tmpDir'[u] = tmpDir[u]
       /\ tmpDir'[t] \in {tmpDir[t], Absent}

\* The cleanup of a task that finds another task's identity in the lock file
\* when it reads it (line 337) ends there and changes nothing of the others.
NonOwnerAtRead ==
  [][\A t \in Tasks : NonOwnerCleanup(t, {"fin_rmtree", "fin_read"})]_vars

\* C32: the cleanup of a call that ends while the lock file carries another
\* task's identity leaves the lock file, the other tasks' temp directories
\* and module_dir unchanged, at every one of its steps, and removes only its
\* own temp directory.
C32_NonOwnerCleanup ==
  [][\A t \in Tasks : NonOwnerCleanup(t, FinallyPcs)]_vars

\* Whenever the lock file exists its content is the complete identity string
\* of one writer whose rename succeeded; a write that fails at its rename
\* leaves the lock file as it was and ends with its temp file removed.
LockContentComplete ==
  /\ [](Exists(target) =>
          \E w \in Tasks : /\ target = _lock_file_contents(w)
                           /\ write_result[w] = "written")
  /\ [][\A w \in Tasks :
          /\ (writing[w] \in {"rename", "remove"} /\ writing'[w] # writing[w]
                /\ write_result'[w] # "written")
               => target' = target
          /\ (writing[w] = "remove" /\ writing'[w] = "done")
               => ~Exists(temp_pathname'[w])]_vars

\* C33: whenever the lock file exists its content is the complete identity
\* string of exactly one attempt whose create-if-absent write succeeded;
\* every write that fails leaves the lock file unchanged and its temp path
\* removed.
C33_LockContentNeverPartial ==
  /\ LockContentComplete
  /\ [][\A w \in Tasks :
          (write_result[w] = "none" /\ write_result'[w] = "OpError")
            => /\ target' = target
               /\ ~Exists(temp_pathname'[w])]_vars

====
